---- MODULE Spec2Model ----
(***************************************************************************)
(* Model of CPSATSolver.solve (services/scheduler/app/solver/cpsat.py):    *)
(* the quick feasibility gate, the size-based choice between the exact     *)
(* CP-SAT path and the greedy solver, the constraint model handed to       *)
(* CP-SAT, the extraction of its solution and the greedy fallback.         *)
(* One behaviour is one call of solve on one request.                      *)
(***************************************************************************)
EXTENDS Integers, Sequences, FiniteSets, TLC

VARIABLES
    request,            \* the SolveRequest: employees, shifts, locked_assignments, options
    pc,                 \* position inside solve
    solver_status,      \* CP-SAT termination status, "NONE" before Solve
    assignments,        \* _solve_greedy's local list `assignments`
    employee_workload,  \* _solve_greedy's local dict `employee_workload`
    shift_idx,          \* greedy loop: index of the current shift (1-based)
    slot_num,           \* greedy loop: current slot number of that shift
    response,           \* the SolveResponse returned, NoResponse before
    trace               \* which parts of solve have run: the model build, the greedy solver

vars == <<request, pc, solver_status, assignments, employee_workload,
          shift_idx, slot_num, response, trace>>

----------------------------------------------------------------------------
(* Program constants *)

MINUTES_PER_DAY == 1440
MINUTES_PER_WEEK == 10080
STUDENT_WEEKLY_LIMIT_MINUTES == 1200
PART_TIME_WEEKLY_LIMIT_MINUTES == 1920
FULL_TIME_WEEKLY_LIMIT_MINUTES == 2400
\* solve: `len(request.shifts) > 50 or len(request.employees) > 25`
MAX_EXACT_SHIFTS == 50
MAX_EXACT_EMPLOYEES == 25
\* solve: `if len(feasible_employees) > 5` ... `[:5]`
MAX_CANDIDATES == 5
\* solve: `if len(request.employees) <= 10` (workload balancing)
MAX_BALANCED_TEAM == 10

DAY_INDEX == [d \in {"MON", "TUE", "WED", "THU", "FRI", "SAT", "SUN"} |->
                CASE d = "MON" -> 0 [] d = "TUE" -> 1 [] d = "WED" -> 2
                  [] d = "THU" -> 3 [] d = "FRI" -> 4 [] d = "SAT" -> 5
                  [] d = "SUN" -> 6]

None == "None"
NoResponse == [status |-> "NO_RESPONSE"]

----------------------------------------------------------------------------
(* Generic helpers on sequences *)

Range(s) == {s[i] : i \in DOMAIN s}

\* sum(...) over a sequence of numbers, by halves
RECURSIVE SumRange(_, _, _)
SumRange(s, lo, hi) ==
    IF lo > hi THEN 0
    ELSE IF lo = hi THEN s[lo]
    ELSE LET mid == (lo + hi) \div 2
         IN  SumRange(s, lo, mid) + SumRange(s, mid + 1, hi)

SumSeq(s) == SumRange(s, 1, Len(s))

\* str.lower() on the role names of the model's universe
lower(s) ==
    CASE s \in {"Cashier", "CASHIER", "cashier"} -> "cashier"
      [] s \in {"Manager", "MANAGER", "manager"} -> "manager"
      [] s \in {"Stock", "stock"} -> "stock"
      [] OTHER -> s

----------------------------------------------------------------------------
(* Feasibility filter *)

\* mutant of is_available: a window that intersects the shift is enough
is_available_partial_overlap(emp, shift) ==
    \E i \in DOMAIN emp.availability :
        LET availability_slot == emp.availability[i] IN
            /\ availability_slot.day = shift.day
            /\ ~availability_slot.is_off
            /\ availability_slot.start_minute < shift.end_minute
            /\ availability_slot.end_minute > shift.start_minute

\* the inner availability loop of _find_feasible_employees_for_shift
is_available(emp, shift) ==
    \E i \in DOMAIN emp.availability :
        LET availability_slot == emp.availability[i] IN
            /\ availability_slot.day = shift.day
            /\ ~availability_slot.is_off
            /\ availability_slot.start_minute <= shift.start_minute
            /\ availability_slot.end_minute >= shift.end_minute

\* `emp.role_names and shift.role.lower() not in [r.lower() for r in emp.role_names]`
role_name_mismatch(emp, shift) ==
    /\ emp.role_names # {}
    /\ lower(shift.role) \notin {lower(r) : r \in emp.role_names}

\* mutant of role_rejected: the work type identifier is required of
\* cross-store employees too
role_rejected_by_id_only(emp, shift) ==
    IF shift.work_type_id # None
    THEN shift.work_type_id \notin emp.role_ids
    ELSE role_name_mismatch(emp, shift)

\* the work type check: TRUE when the employee is skipped (`continue`)
role_rejected(emp, shift) ==
    IF shift.work_type_id # None
    THEN IF emp.home_store_id = shift.store_id
         THEN shift.work_type_id \notin emp.role_ids
         ELSE role_name_mismatch(emp, shift)
    ELSE role_name_mismatch(emp, shift)

\* the store check: TRUE when the employee is skipped
store_rejected(emp, shift) ==
    emp.home_store_id # shift.store_id /\ ~emp.can_work_across_stores

is_feasible(emp, shift) ==
    /\ ~role_rejected(emp, shift)
    /\ ~store_rejected(emp, shift)
    /\ is_available(emp, shift)

find_feasible_employees_for_shift(shift, employees) ==
    SelectSeq(employees, LAMBDA emp : is_feasible(emp, shift))

\* mutant of get_weekly_limit: students get the full-time limit
get_weekly_limit_student_full_time(employee) ==
    IF employee.contract_type = "STUDENT" THEN FULL_TIME_WEEKLY_LIMIT_MINUTES
    ELSE IF employee.contract_type = "PART_TIME" THEN PART_TIME_WEEKLY_LIMIT_MINUTES
    ELSE IF employee.contract_type = "FULL_TIME" THEN FULL_TIME_WEEKLY_LIMIT_MINUTES
    ELSE employee.weekly_minutes_target

get_weekly_limit(employee) ==
    IF employee.contract_type = "STUDENT" THEN STUDENT_WEEKLY_LIMIT_MINUTES
    ELSE IF employee.contract_type = "PART_TIME" THEN PART_TIME_WEEKLY_LIMIT_MINUTES
    ELSE IF employee.contract_type = "FULL_TIME" THEN FULL_TIME_WEEKLY_LIMIT_MINUTES
    ELSE employee.weekly_minutes_target

\* mutant of quick_feasibility_check: the test for an empty employee list is missing
quick_feasibility_check_no_employee_test(req) ==
    IF req.shifts = <<>> THEN TRUE
    ELSE ~ \E i \in DOMAIN req.shifts :
            /\ find_feasible_employees_for_shift(req.shifts[i], req.employees) = <<>>
            /\ ~req.options.allow_uncovered

quick_feasibility_check(req) ==
    IF req.employees = <<>> THEN FALSE
    ELSE IF req.shifts = <<>> THEN TRUE
    ELSE ~ \E i \in DOMAIN req.shifts :
            /\ find_feasible_employees_for_shift(req.shifts[i], req.employees) = <<>>
            /\ ~req.options.allow_uncovered

----------------------------------------------------------------------------
(* Slot expander and employee metrics *)

duration(x) == x.end_minute - x.start_minute

Max(S) == CHOOSE x \in S : \A y \in S : y <= x

\* locked_lookup.get(key): the dict is filled in list order, so the last
\* locked assignment with an equal key wins
locked_employee_id(shift, slot_number, locked_assignments) ==
    LET matches == {i \in DOMAIN locked_assignments :
                        /\ locked_assignments[i].shift_id = shift.id
                        /\ locked_assignments[i].day = shift.day
                        /\ locked_assignments[i].start_minute = shift.start_minute
                        /\ locked_assignments[i].end_minute = shift.end_minute
                        /\ locked_assignments[i].slot = slot_number}
    IN  IF matches = {} THEN None
        ELSE locked_assignments[Max(matches)].employee_id

\* all_slots of _build_shift_slots for the shifts lo..hi, as
\* <<shift index, slot_number>> in list order
RECURSIVE slots_of(_, _, _)
slots_of(shifts, lo, hi) ==
    IF lo > hi THEN <<>>
    ELSE IF lo = hi THEN [k \in 1..shifts[lo].capacity |-> <<lo, k - 1>>]
    ELSE LET mid == (lo + hi) \div 2
         IN  slots_of(shifts, lo, mid) \o slots_of(shifts, mid + 1, hi)

build_shift_slots(shifts) == slots_of(shifts, 1, Len(shifts))

\* ShiftSlot.day_start_minute
day_start_minute(shift) == DAY_INDEX[shift.day] * MINUTES_PER_DAY + shift.start_minute

\* employee_metrics[emp.id]['locked_minutes']
locked_minutes(employee_id, locked_assignments) ==
    SumSeq([i \in DOMAIN locked_assignments |->
              IF locked_assignments[i].employee_id = employee_id
              THEN duration(locked_assignments[i]) ELSE 0])

\* mutant of locked_segment: the slot is left at AssignmentSegment's default
locked_segment_default_slot(locked) ==
    [shift_id |-> locked.shift_id, day |-> locked.day,
     employee_id |-> locked.employee_id,
     start_minute |-> locked.start_minute, end_minute |-> locked.end_minute,
     slot |-> 0, locked |-> TRUE]

\* AssignmentSegment built from a locked assignment (locked=True)
locked_segment(locked) ==
    [shift_id |-> locked.shift_id, day |-> locked.day,
     employee_id |-> locked.employee_id,
     start_minute |-> locked.start_minute, end_minute |-> locked.end_minute,
     slot |-> locked.slot, locked |-> TRUE]

\* AssignmentSegment built for a new assignment (shift template times, locked=False)
solved_segment(shift, employee_id, slot_number) ==
    [shift_id |-> shift.id, day |-> shift.day, employee_id |-> employee_id,
     start_minute |-> shift.start_minute, end_minute |-> shift.end_minute,
     slot |-> slot_number, locked |-> FALSE]

locked_segments(locked_assignments) ==
    [i \in DOMAIN locked_assignments |-> locked_segment(locked_assignments[i])]

\* sort keys are pairs compared like Python tuples
KeyLess(k1, k2) == k1[1] < k2[1] \/ (k1[1] = k2[1] /\ k1[2] < k2[2])

\* s in ascending order of keys (keys[i] is the key of s[i]), equal keys in
\* list order: list.sort and sorted are stable
StableSort(s, keys) ==
    LET ks == keys \o <<>>
        pos == [i \in DOMAIN s |->
                  1 + Cardinality({j \in DOMAIN s :
                         \/ KeyLess(ks[j], ks[i])
                         \/ (~KeyLess(ks[i], ks[j]) /\ j < i)})] \o <<>>
    IN  [k \in DOMAIN s |-> s[CHOOSE i \in DOMAIN s : pos[i] = k]]

\* score_employee of _rank_employees_for_shift, times 100
score_employee(emp, shift, locked_assignments) ==
    LET limit == get_weekly_limit(emp)
        locked == locked_minutes(emp.id, locked_assignments)
        remaining == IF limit - locked > 0 THEN limit - locked ELSE 0
    IN  remaining
        + (IF emp.home_store_id = shift.store_id THEN 1000 ELSE 0)
        + (IF shift.work_type_id # None
           THEN IF emp.home_store_id = shift.store_id /\ shift.work_type_id \in emp.role_ids
                THEN 500
                ELSE IF /\ emp.home_store_id # shift.store_id
                        /\ emp.role_names # {}
                        /\ lower(shift.role) \in {lower(r) : r \in emp.role_names}
                     THEN 300 ELSE 0
           ELSE 0)

\* sorted(employees, key=score_employee, reverse=True)
rank_employees_for_shift(employees, shift, locked_assignments) ==
    StableSort(employees,
               [i \in DOMAIN employees |->
                  <<-score_employee(employees[i], shift, locked_assignments), 0>>])

----------------------------------------------------------------------------
(* The CP-SAT model built by solve, as the set of its solutions.            *)
(* assign_vars is represented by the slots that got variables and, per      *)
(* slot, the candidate employees; a solution maps each such slot to the     *)
(* one candidate whose boolean is 1 (`sum(slot_vars) == 1`).                *)

SlotSet(req) == Range(build_shift_slots(req.shifts))

slot_locked_to(req, p) ==
    locked_employee_id(req.shifts[p[1]], p[2], req.locked_assignments)

\* feasible_employees of a slot after the top-5 cut
candidates(req, shift) ==
    LET feasible_employees == find_feasible_employees_for_shift(shift, req.employees)
    IN  IF Len(feasible_employees) > MAX_CANDIDATES
        THEN SubSeq(rank_employees_for_shift(feasible_employees, shift,
                                             req.locked_assignments),
                    1, MAX_CANDIDATES)
        ELSE feasible_employees

candidate_ids(req, p) == {e.id : e \in Range(candidates(req, req.shifts[p[1]]))}

\* mutant of var_slots: only slot 0 of a shift gets variables
var_slots_first_slot_only(req) ==
    {p \in SlotSet(req) : /\ p[2] = 0
                          /\ slot_locked_to(req, p) = None
                          /\ candidate_ids(req, p) # {}}

\* the slots for which assign_vars holds at least one variable
var_slots(req) ==
    {p \in SlotSet(req) : slot_locked_to(req, p) = None /\ candidate_ids(req, p) # {}}

\* the (shift, slot) keys of uncovered_vars
uncovered_slots(req) ==
    {p \in SlotSet(req) : /\ slot_locked_to(req, p) = None
                          /\ candidate_ids(req, p) = {}
                          /\ req.options.allow_uncovered}

RECURSIVE SumDurations(_, _)
SumDurations(req, S) ==
    IF S = {} THEN 0
    ELSE LET p == CHOOSE q \in S : TRUE
         IN  duration(req.shifts[p[1]]) + SumDurations(req, S \ {p})

\* two slots' week intervals [day_start_minute, day_start_minute + duration) intersect
intervals_overlap(req, p, q) ==
    LET a == req.shifts[p[1]]
        b == req.shifts[q[1]]
    IN  ~ \/ day_start_minute(a) + duration(a) <= day_start_minute(b)
          \/ day_start_minute(b) + duration(b) <= day_start_minute(a)

\* the slots whose interval _add_no_overlap_constraints gives the employee, under sol
employee_intervals(req, sol, employee) ==
    {p \in SlotSet(req) : slot_locked_to(req, p) = employee.id}
        \cup {p \in DOMAIN sol : sol[p] = employee.id}

no_overlap_holds(req, sol, employee) ==
    \A p, q \in employee_intervals(req, sol, employee) :
        p # q => ~intervals_overlap(req, p, q)

\* the value the workload constraint gives employee_minutes[employee.id]
employee_minutes(req, sol, employee) ==
    locked_minutes(employee.id, req.locked_assignments)
        + SumDurations(req, {p \in DOMAIN sol : sol[p] = employee.id})

workload_holds(req, sol, employee) ==
    /\ employee_minutes(req, sol, employee) <= get_weekly_limit(employee)
    /\ Len(req.employees) <= MAX_BALANCED_TEAM
          => employee_minutes(req, sol, employee) <= MINUTES_PER_WEEK

\* NewIntVar(locked_minutes, weekly_limit): an empty domain makes the model invalid
domains_valid(req) ==
    \A i \in DOMAIN req.employees :
        locked_minutes(req.employees[i].id, req.locked_assignments)
            <= get_weekly_limit(req.employees[i])

cp_solutions(req) ==
    IF ~domains_valid(req) THEN {}
    ELSE LET V == var_slots(req)
             ids == [p \in V |-> candidate_ids(req, p)]
             U == UNION {ids[p] : p \in V}
         IN  {sol \in [V -> U] :
                /\ \A p \in V : sol[p] \in ids[p]
                /\ \A i \in DOMAIN req.employees :
                     /\ no_overlap_holds(req, sol, req.employees[i])
                     /\ workload_holds(req, sol, req.employees[i])}

\* the objective: uncovered penalty (its variables are free, so 0 at the
\* optimum) plus max_minutes for teams of at most 10
objective_value(req, sol) ==
    IF Len(req.employees) <= MAX_BALANCED_TEAM
    THEN Max({0} \cup {employee_minutes(req, sol, req.employees[i]) :
                          i \in DOMAIN req.employees})
    ELSE 0

cp_optimal_solutions(req) ==
    LET S == cp_solutions(req)
    IN  {sol \in S : \A other \in S : objective_value(req, sol) <= objective_value(req, other)}

\* _extract_assignments: locked assignments, then the variables that are 1
\* in assign_vars' insertion order (shift, slot)
extract_assignments(req, sol) ==
    LET all_slots == build_shift_slots(req.shifts)
        solved == SelectSeq(all_slots, LAMBDA p : p \in DOMAIN sol)
    IN  locked_segments(req.locked_assignments)
          \o [k \in DOMAIN solved |->
                solved_segment(req.shifts[solved[k][1]], sol[solved[k]], solved[k][2])]

total_capacity_minutes(req) ==
    SumSeq([i \in DOMAIN req.shifts |-> duration(req.shifts[i]) * req.shifts[i].capacity])

\* a float ratio kept as an exact fraction; 1.0 is 1/1 and 0.0 is 0/1
ratio(total_minutes, capacity) ==
    IF capacity > 0 THEN [num |-> total_minutes, den |-> capacity]
    ELSE [num |-> 1, den |-> 1]

\* the SolveResponse of the exact path
exact_response(req, status, sol) ==
    LET segs == extract_assignments(req, sol)
        total_minutes == SumSeq([k \in DOMAIN segs |-> duration(segs[k])])
    IN  [status |-> status,
         assignments |-> segs,
         objective_value |-> IF status = "OPTIMAL" THEN objective_value(req, sol) ELSE None,
         total_assigned_minutes |-> total_minutes,
         coverage_ratio |-> ratio(total_minutes, total_capacity_minutes(req)),
         infeasible_reason |-> None]

create_infeasible_response(req, reason) ==
    [status |-> "INFEASIBLE",
     assignments |-> <<>>,
     objective_value |-> None,
     total_assigned_minutes |-> 0,
     coverage_ratio |-> [num |-> 0, den |-> 1],
     infeasible_reason |-> reason]

----------------------------------------------------------------------------
(* The greedy solver *)

\* `any(locked.shift_id == shift.id and locked.slot == slot_num ...)`
is_locked(shift, n, locked_assignments) ==
    \E i \in DOMAIN locked_assignments :
        /\ locked_assignments[i].shift_id = shift.id
        /\ locked_assignments[i].slot = n

has_overlapping_assignment(employee_id, new_shift, existing_assignments) ==
    \E k \in DOMAIN existing_assignments :
        LET assignment == existing_assignments[k] IN
            /\ assignment.employee_id = employee_id
            /\ assignment.day = new_shift.day
            /\ ~ \/ new_shift.end_minute <= assignment.start_minute
                 \/ new_shift.start_minute >= assignment.end_minute

\* mutant of sort_by_workload: the weekly target alone orders the employees
sort_by_workload_target_only(feasible, workload) ==
    StableSort(feasible,
               [i \in DOMAIN feasible |-> <<0, -feasible[i].weekly_minutes_target>>])

\* feasible.sort(key=(employee_workload[emp.id], -emp.weekly_minutes_target))
sort_by_workload(feasible, workload) ==
    StableSort(feasible,
               [i \in DOMAIN feasible |->
                  <<workload[feasible[i].id], -feasible[i].weekly_minutes_target>>])

\* the employee the greedy loop would pick for the shift: feasible[0] after the sort
best_employee(shift, employees, workload) ==
    sort_by_workload(find_feasible_employees_for_shift(shift, employees), workload)[1]

\* the check of the pick: weekly limit and no overlap
can_take(employee, shift, workload, existing_assignments) ==
    /\ workload[employee.id] + duration(shift) <= get_weekly_limit(employee)
    /\ ~has_overlapping_assignment(employee.id, shift, existing_assignments)

\* the workload accumulators after the locked assignments have been added
seed_workload(employees, locked_assignments) ==
    [id \in {employees[i].id : i \in DOMAIN employees} |->
        locked_minutes(id, locked_assignments)]

\* `employee_workload[locked.employee_id] += ...` raises KeyError for an id
\* that is not a key of employee_workload
seed_raises(employees, locked_assignments) ==
    \E i \in DOMAIN locked_assignments :
        locked_assignments[i].employee_id \notin {employees[j].id : j \in DOMAIN employees}

\* the SolveResponse of the greedy path
greedy_response(req, segs) ==
    LET total_minutes == SumSeq([k \in DOMAIN segs |->
                                   IF ~segs[k].locked THEN duration(segs[k]) ELSE 0])
    IN  [status |-> "GREEDY_SOLUTION",
         assignments |-> segs,
         objective_value |-> None,
         total_assigned_minutes |-> total_minutes,
         coverage_ratio |-> ratio(total_minutes, total_capacity_minutes(req)),
         infeasible_reason |-> None]

\* mutant of is_large: only the number of employees is tested
is_large_employees_only(req) == Len(req.employees) > MAX_EXACT_EMPLOYEES

\* the size test of solve
is_large(req) ==
    Len(req.shifts) > MAX_EXACT_SHIFTS \/ Len(req.employees) > MAX_EXACT_EMPLOYEES

----------------------------------------------------------------------------
(* The requests of the model *)

MaxEmployees == 2   \* employees taken from EmployeePool per request
MaxShifts == 2      \* shifts taken from ShiftPool per request
MaxLocked == 2      \* locked assignments taken from LockedPool per request
MaxPadded == 1      \* pool items of each kind in a request padded over the size threshold

Window(day, start_minute, end_minute) ==
    [day |-> day, is_off |-> FALSE, start_minute |-> start_minute, end_minute |-> end_minute]

Off(day) == [day |-> day, is_off |-> TRUE, start_minute |-> 0, end_minute |-> 0]

Employee(id, home_store_id, can_work_across_stores, contract_type, weekly_minutes_target, role_ids, role_names, availability) ==
    [id |-> id, home_store_id |-> home_store_id,
     can_work_across_stores |-> can_work_across_stores,
     contract_type |-> contract_type,
     weekly_minutes_target |-> weekly_minutes_target,
     role_ids |-> role_ids, role_names |-> role_names,
     availability |-> availability]

Shift(id, role, day, start_minute, end_minute, capacity, store_id, work_type_id) ==
    [id |-> id, role |-> role, day |-> day, start_minute |-> start_minute,
     end_minute |-> end_minute, capacity |-> capacity, store_id |-> store_id,
     work_type_id |-> work_type_id]

LockedAssignment(employee_id, shift_id, day, start_minute, end_minute, slot) ==
    [employee_id |-> employee_id, shift_id |-> shift_id, day |-> day,
     start_minute |-> start_minute, end_minute |-> end_minute, slot |-> slot]

EmployeePool ==
    << Employee("e1", "A", FALSE, "FULL_TIME", 2400, {"wtC"}, {"Cashier"},
                <<Window("MON", 0, 1440), Window("TUE", 0, 1440)>>),
       Employee("e2", "B", TRUE, "FLEX", 480, {"wtX"}, {"CASHIER"},
                <<Window("MON", 0, 1440), Off("TUE")>>),
       Employee("e3", "A", FALSE, "STUDENT", 1200, {"wtC"}, {},
                <<Window("MON", 480, 960), Window("TUE", 0, 1440)>>),
       Employee("e4", "B", TRUE, "PART_TIME", 1920, {}, {},
                <<Window("MON", 0, 1440)>>),
       Employee("e5", "B", FALSE, "FULL_TIME", 2400, {"wtC"}, {"cashier"},
                <<Window("MON", 0, 1440)>>) >>

ShiftPool ==
    << Shift("s1", "Cashier", "MON", 480, 960, 2, "A", "wtC"),
       Shift("s2", "cashier", "MON", 720, 1200, 1, "A", None),
       Shift("s3", "Cashier", "TUE", 0, 1440, 1, "A", "wtC"),
       Shift("s4", "Stock", "WED", 0, 480, 1, "A", None) >>

LockedPool ==
    << LockedAssignment("e1", "s1", "MON", 480, 960, 0),
       LockedAssignment("e1", "s1", "MON", 420, 900, 1),
       LockedAssignment("e1", "s1", "TUE", 480, 960, 1),
       LockedAssignment("e2", "s3", "TUE", 0, 1440, 0),
       LockedAssignment("ghost", "s2", "MON", 720, 1200, 0) >>

\* employees and shifts that only make a request large
FillerEmployee(i) ==
    Employee("f" \o ToString(i), "A", FALSE, "FULL_TIME", 2400, {"wtS"}, {"Stock"},
             <<Window("WED", 0, 1440)>>)

FillerShift(i) == Shift("x" \o ToString(i), "Stock", "SUN", 0, 480, 1, "A", None)

\* the items of pool at the indices of S, in pool order
Pick(pool, S) ==
    LET n == Cardinality(S)
        nth(k) == CHOOSE i \in S : Cardinality({j \in S : j < i}) = k - 1
    IN  [k \in 1..n |-> pool[nth(k)]]

Picks(pool, max) ==
    {Pick(pool, S) : S \in {T \in SUBSET DOMAIN pool : Cardinality(T) <= max}}

Request(employees, shifts, locked_assignments, allow_uncovered) ==
    [employees |-> employees, shifts |-> shifts,
     locked_assignments |-> locked_assignments,
     options |-> [allow_uncovered |-> allow_uncovered]]

SmallRequests ==
    {Request(es, ss, ls, au) :
        es \in Picks(EmployeePool, MaxEmployees), ss \in Picks(ShiftPool, MaxShifts),
        ls \in Picks(LockedPool, MaxLocked), au \in BOOLEAN}

\* requests padded to one of the exact solver's limits: MAX_EXACT_EMPLOYEES
\* more employees or MAX_EXACT_SHIFTS more shifts
PaddedRequests ==
    {Request(es \o [i \in 1..pad[1] |-> FillerEmployee(i)],
             ss \o [i \in 1..pad[2] |-> FillerShift(i)], ls, au) :
        es \in Picks(EmployeePool, MaxPadded), ss \in Picks(ShiftPool, MaxPadded),
        ls \in Picks(LockedPool, MaxPadded), au \in BOOLEAN,
        pad \in {<<MAX_EXACT_EMPLOYEES, 0>>, <<0, MAX_EXACT_SHIFTS>>}}

Requests == SmallRequests \cup PaddedRequests

----------------------------------------------------------------------------
(* solve *)

Init ==
    /\ request \in Requests
    /\ pc = "start"
    /\ solver_status = "NONE"
    /\ assignments = <<>>
    /\ employee_workload = <<>>
    /\ shift_idx = 0
    /\ slot_num = 0
    /\ response = NoResponse
    /\ trace = [model_built |-> FALSE, greedy_ran |-> FALSE]

\* `if not self._quick_feasibility_check(request): return self._create_infeasible_response(...)`
QuickInfeasible ==
    /\ pc = "start"
    /\ ~quick_feasibility_check(request)
    /\ response' = create_infeasible_response(request, "Quick feasibility check failed")
    /\ pc' = "done"
    /\ UNCHANGED <<request, solver_status, assignments, employee_workload,
                   shift_idx, slot_num, trace>>

\* `if len(request.shifts) > 50 or len(request.employees) > 25: return self._solve_greedy(request)`
SelectGreedy ==
    /\ pc = "start"
    /\ quick_feasibility_check(request)
    /\ is_large(request)
    /\ pc' = "greedy_seed"
    /\ UNCHANGED <<request, solver_status, assignments, employee_workload,
                   shift_idx, slot_num, response, trace>>

\* the exact path up to solver.Solve(model): slots, metrics, variables, constraints
BuildModel ==
    /\ pc = "start"
    /\ quick_feasibility_check(request)
    /\ ~is_large(request)
    /\ pc' = "solving"
    /\ trace' = [trace EXCEPT !.model_built = TRUE]
    /\ UNCHANGED <<request, solver_status, assignments, employee_workload,
                   shift_idx, slot_num, response>>

\* solver.Solve ends OPTIMAL or FEASIBLE: extract the solution and return
SolverSuccess ==
    /\ pc = "solving"
    /\ \E status \in {"OPTIMAL", "FEASIBLE"} :
         \E sol \in (IF status = "OPTIMAL" THEN cp_optimal_solutions(request)
                     ELSE cp_solutions(request)) :
            /\ solver_status' = status
            /\ response' = exact_response(request, status, sol)
    /\ pc' = "done"
    /\ UNCHANGED <<request, assignments, employee_workload, shift_idx, slot_num, trace>>

\* the terminations CP-SAT can reach without a solution: the model is invalid
\* or proved infeasible, or the time limit passes first
failure_statuses(req) ==
    IF ~domains_valid(req) THEN {"MODEL_INVALID", "INFEASIBLE"}
    ELSE IF cp_solutions(req) = {} THEN {"INFEASIBLE", "UNKNOWN"}
    ELSE {"UNKNOWN"}

\* `if status not in (OPTIMAL, FEASIBLE): return self._solve_greedy(request)`
\* (this return makes the later `else` branch, which calls
\* _diagnose_infeasibility, unreachable: no action stands for it)
SolverFallback ==
    /\ pc = "solving"
    /\ \E status \in failure_statuses(request) : solver_status' = status
    /\ pc' = "greedy_seed"
    /\ UNCHANGED <<request, assignments, employee_workload, shift_idx, slot_num,
                   response, trace>>

\* _solve_greedy, the loop over the locked assignments
GreedySeed ==
    /\ pc = "greedy_seed"
    /\ ~seed_raises(request.employees, request.locked_assignments)
    /\ assignments' = locked_segments(request.locked_assignments)
    /\ employee_workload' = seed_workload(request.employees, request.locked_assignments)
    /\ shift_idx' = 1
    /\ slot_num' = 0
    /\ pc' = "greedy_loop"
    /\ trace' = [trace EXCEPT !.greedy_ran = TRUE]
    /\ UNCHANGED <<request, solver_status, response>>

\* the same loop when a locked assignment names an employee outside the
\* request: KeyError leaves solve
GreedySeedRaises ==
    /\ pc = "greedy_seed"
    /\ seed_raises(request.employees, request.locked_assignments)
    /\ pc' = "raised"
    /\ trace' = [trace EXCEPT !.greedy_ran = TRUE]
    /\ UNCHANGED <<request, solver_status, assignments, employee_workload,
                   shift_idx, slot_num, response>>

\* the position after slot slot_num of shift shift_idx
next_position ==
    IF slot_num + 1 < request.shifts[shift_idx].capacity
    THEN <<shift_idx, slot_num + 1>>
    ELSE <<shift_idx + 1, 0>>

\* the segment the greedy loop adds for the current slot, <<>> when it adds none
greedy_pick(shift, n, req, workload, existing_assignments) ==
    IF is_locked(shift, n, req.locked_assignments) THEN <<>>
    ELSE IF find_feasible_employees_for_shift(shift, req.employees) = <<>> THEN <<>>
    ELSE LET best == best_employee(shift, req.employees, workload)
         IN  IF can_take(best, shift, workload, existing_assignments)
             THEN <<solved_segment(shift, best.id, n)>>
             ELSE <<>>

\* one iteration of the greedy loop: one slot of one shift
GreedySlot ==
    /\ pc = "greedy_loop"
    /\ shift_idx <= Len(request.shifts)
    /\ LET shift == request.shifts[shift_idx]
           added == greedy_pick(shift, slot_num, request, employee_workload, assignments)
       IN  /\ assignments' = assignments \o added
           /\ employee_workload' =
                IF added = <<>> THEN employee_workload
                ELSE [employee_workload EXCEPT
                        ![added[1].employee_id] = @ + duration(shift)]
    /\ shift_idx' = next_position[1]
    /\ slot_num' = next_position[2]
    /\ UNCHANGED <<request, pc, solver_status, response, trace>>

\* the end of _solve_greedy: metrics and the response
GreedyReturn ==
    /\ pc = "greedy_loop"
    /\ shift_idx > Len(request.shifts)
    /\ response' = greedy_response(request, assignments)
    /\ pc' = "done"
    /\ UNCHANGED <<request, solver_status, assignments, employee_workload,
                   shift_idx, slot_num, trace>>

Next ==
    \/ QuickInfeasible
    \/ SelectGreedy
    \/ BuildModel
    \/ SolverSuccess
    \/ SolverFallback
    \/ GreedySeed
    \/ GreedySeedRaises
    \/ GreedySlot
    \/ GreedyReturn

Spec == Init /\ [][Next]_vars

\* the requests of the liveness check: at most MaxLive employees and locked
\* assignments, the shifts as in Requests
MaxLive == 1

LiveRequests ==
    {r \in Requests : Len(r.employees) <= MaxLive /\ Len(r.locked_assignments) <= MaxLive}

FairInit == Init /\ request \in LiveRequests

\* solve runs in one thread from call to return: a step that can be taken is taken
FairSpec == FairInit /\ [][Next]_vars /\ WF_vars(Next)

----------------------------------------------------------------------------
(* Properties of the responses *)

Returned == pc = "done"

Segments == response.assignments

\* two segments of one employee on one day whose minute intervals intersect
Overlapping(a, b) ==
    /\ a.employee_id = b.employee_id
    /\ a.day = b.day
    /\ ~(a.end_minute <= b.start_minute \/ b.end_minute <= a.start_minute)

\* the locked assignments of the request are pairwise free of overlap
LockedInputOverlapFree ==
    \A i, j \in DOMAIN request.locked_assignments :
        i < j => ~Overlapping(request.locked_assignments[i], request.locked_assignments[j])

\* C1: in every response no two segments of one employee on one day overlap
\* (end1 <= start2 or end2 <= start1), whichever shifts they come from.
\* Stated for the requests whose locked assignments do not overlap one
\* another, so that a violation is an overlap the solver itself produced.
C1_NoOverlap ==
    (Returned /\ LockedInputOverlapFree) =>
        \A i, j \in DOMAIN Segments : i < j => ~Overlapping(Segments[i], Segments[j])

\* minutes of the response's segments of one employee, locked ones included
AssignedMinutes(employee_id) ==
    SumSeq([k \in DOMAIN Segments |->
              IF Segments[k].employee_id = employee_id
              THEN Segments[k].end_minute - Segments[k].start_minute ELSE 0])

\* minutes of the request's locked assignments of one employee
LockedInputMinutes(employee_id) ==
    SumSeq([i \in DOMAIN request.locked_assignments |->
              IF request.locked_assignments[i].employee_id = employee_id
              THEN request.locked_assignments[i].end_minute
                     - request.locked_assignments[i].start_minute
              ELSE 0])

\* the weekly limits as the claim lists them
ContractLimit(employee) ==
    CASE employee.contract_type = "STUDENT" -> 1200
      [] employee.contract_type = "PART_TIME" -> 1920
      [] employee.contract_type = "FULL_TIME" -> 2400
      [] OTHER -> employee.weekly_minutes_target

\* C2 as claimed: in every response each employee's segments (locked ones
\* included) sum to at most the contract-derived weekly limit.
C2_WeeklyLimit ==
    Returned =>
        \A i \in DOMAIN request.employees :
            AssignedMinutes(request.employees[i].id) <= ContractLimit(request.employees[i])

\* C2 amended: in every response an employee's segments sum to at most the
\* weekly limit, unless the employee's locked assignments alone exceed it, and
\* then the response gives the employee nothing but those locked segments.
C2_WeeklyLimitUnlessLocked ==
    Returned =>
        \A i \in DOMAIN request.employees :
            LET e == request.employees[i] IN
                \/ AssignedMinutes(e.id) <= ContractLimit(e)
                \/ /\ LockedInputMinutes(e.id) > ContractLimit(e)
                   /\ \A k \in DOMAIN Segments :
                        Segments[k].employee_id = e.id => Segments[k].locked

\* a response in which an employee holds a locked and a new segment within the limit
C2_Witness ==
    /\ Returned
    /\ \E i \in DOMAIN request.employees :
         LET e == request.employees[i] IN
            /\ \E k \in DOMAIN Segments : Segments[k].employee_id = e.id /\ Segments[k].locked
            /\ \E k \in DOMAIN Segments : Segments[k].employee_id = e.id /\ ~Segments[k].locked
            /\ AssignedMinutes(e.id) > LockedInputMinutes(e.id)

\* the locked assignment appears in the response with its own fields and locked=true
Preserved(locked) ==
    \E k \in DOMAIN Segments :
        /\ Segments[k].shift_id = locked.shift_id
        /\ Segments[k].day = locked.day
        /\ Segments[k].start_minute = locked.start_minute
        /\ Segments[k].end_minute = locked.end_minute
        /\ Segments[k].slot = locked.slot
        /\ Segments[k].employee_id = locked.employee_id
        /\ Segments[k].locked

\* C3 as claimed: every response contains every locked assignment of the
\* request unmodified, whichever path solve takes.
C3_LockedPreserved ==
    Returned =>
        \A i \in DOMAIN request.locked_assignments : Preserved(request.locked_assignments[i])

\* C3 amended: every response of the exact and of the greedy path contains
\* every locked assignment unmodified with locked=true; the INFEASIBLE
\* response of the quick feasibility check has no assignments at all.
C3_LockedPreservedUnlessInfeasible ==
    Returned =>
        IF response.status = "INFEASIBLE"
        THEN Segments = <<>>
        ELSE \A i \in DOMAIN request.locked_assignments :
                Preserved(request.locked_assignments[i])

\* a response with locked segments next to a new one
C3_Witness ==
    /\ Returned
    /\ response.status # "INFEASIBLE"
    /\ Len(request.locked_assignments) = MaxLocked
    /\ \E k \in DOMAIN Segments : ~Segments[k].locked

\* C4: solve returns a response for every request and never raises, also
\* when a locked assignment names an employee that is not in the request.
C4_NeverRaises == pc # "raised"

\* the sum over the shifts of (end - start) * capacity
CapacityMinutes ==
    SumSeq([i \in DOMAIN request.shifts |->
              (request.shifts[i].end_minute - request.shifts[i].start_minute)
                  * request.shifts[i].capacity])

\* C5: in every response coverage_ratio is total_assigned_minutes over the
\* total capacity minutes, and 1.0 when the total capacity is 0 (as an
\* identity of fractions).
C5_CoverageAccounting ==
    Returned =>
        IF CapacityMinutes = 0
        THEN response.coverage_ratio.num = response.coverage_ratio.den
        ELSE response.coverage_ratio.num * CapacityMinutes
                = response.total_assigned_minutes * response.coverage_ratio.den

\* no employee of the request is eligible for the shift
Unstaffable(shift) ==
    find_feasible_employees_for_shift(shift, request.employees) = <<>>

\* the cases in which the quick feasibility check is claimed to fail
GateFails ==
    \/ request.employees = <<>>
    \/ /\ ~request.options.allow_uncovered
       /\ \E i \in DOMAIN request.shifts : Unstaffable(request.shifts[i])

\* C6: when the request has no employees, or a shift has no eligible
\* employee while allow_uncovered is false, solve neither builds a model nor
\* runs the greedy solver, and what it returns is the INFEASIBLE response
\* with no assignments and a non-empty infeasible_reason.
C6_FeasibilityGate ==
    GateFails =>
        /\ ~trace.model_built
        /\ ~trace.greedy_ran
        /\ pc \in {"start", "done"}
        /\ Returned =>
              /\ response.status = "INFEASIBLE"
              /\ Segments = <<>>
              /\ response.infeasible_reason \notin {None, ""}

\* the gate has answered a request that has employees and locked assignments
C6_Witness ==
    /\ Returned
    /\ GateFails
    /\ request.employees # <<>>
    /\ request.locked_assignments # <<>>
    /\ response.status = "INFEASIBLE"

\* more shifts or more employees than the exact solver takes
OverThreshold == Len(request.shifts) > 50 \/ Len(request.employees) > 25

\* C7 as claimed: every request over the threshold is answered with status
\* GREEDY_SOLUTION.
C7_GreedyThreshold ==
    (Returned /\ OverThreshold) => response.status = "GREEDY_SOLUTION"

\* C7 amended: a request over the threshold never reaches the exact solver;
\* it is answered INFEASIBLE when the quick feasibility check fails, and
\* every response returned for it otherwise has status GREEDY_SOLUTION.
C7_GreedyThresholdAfterGate ==
    OverThreshold =>
        /\ ~trace.model_built
        /\ solver_status = "NONE"
        /\ Returned =>
              response.status = (IF GateFails THEN "INFEASIBLE" ELSE "GREEDY_SOLUTION")

\* a request with more than 50 shifts has been answered by the greedy solver
C7_Witness ==
    /\ Returned
    /\ Len(request.shifts) > 50
    /\ response.status = "GREEDY_SOLUTION"
    /\ \E k \in DOMAIN Segments : ~Segments[k].locked

Eligible(emp, shift) ==
    emp \in Range(find_feasible_employees_for_shift(shift, request.employees))

\* a cross-store employee whose role names include the shift's role, case-insensitively
CrossStoreNameMatch(emp, shift) ==
    /\ emp.home_store_id # shift.store_id
    /\ emp.can_work_across_stores
    /\ lower(shift.role) \in {lower(r) : r \in emp.role_names}

\* a non-off availability window of the shift's day contains the shift
WindowContains(emp, shift) ==
    \E i \in DOMAIN emp.availability :
        /\ emp.availability[i].day = shift.day
        /\ ~emp.availability[i].is_off
        /\ emp.availability[i].start_minute <= shift.start_minute
        /\ emp.availability[i].end_minute >= shift.end_minute

\* C8 as claimed: a cross-store employee allowed to work across stores whose
\* role names include the shift's role (case-insensitively) is eligible for
\* the shift, whatever the role identifiers.
C8_CrossStoreEligible ==
    \A i \in DOMAIN request.employees : \A j \in DOMAIN request.shifts :
        CrossStoreNameMatch(request.employees[i], request.shifts[j])
            => Eligible(request.employees[i], request.shifts[j])

\* C8 amended: such an employee is eligible for the shift provided an
\* availability window of the employee contains the shift.
C8_CrossStoreEligibleWhenAvailable ==
    \A i \in DOMAIN request.employees : \A j \in DOMAIN request.shifts :
        (/\ CrossStoreNameMatch(request.employees[i], request.shifts[j])
         /\ WindowContains(request.employees[i], request.shifts[j]))
            => Eligible(request.employees[i], request.shifts[j])

\* a cross-store employee matched by name only (no role identifier equals
\* the shift's work type) has been given the shift
C8_Witness ==
    /\ Returned
    /\ \E i \in DOMAIN request.employees : \E j \in DOMAIN request.shifts :
         LET emp == request.employees[i]
             shift == request.shifts[j]
         IN  /\ CrossStoreNameMatch(emp, shift)
             /\ shift.work_type_id # None
             /\ shift.work_type_id \notin emp.role_ids
             /\ \E k \in DOMAIN Segments :
                    /\ Segments[k].employee_id = emp.id
                    /\ Segments[k].shift_id = shift.id
                    /\ ~Segments[k].locked

\* C9: when CP-SAT proves the model infeasible, the response has no
\* assignments and carries an explanation in infeasible_reason.
C9_ModelInfeasibility ==
    (Returned /\ solver_status = "INFEASIBLE") =>
        /\ Segments = <<>>
        /\ response.infeasible_reason # None

\* C10: an OPTIMAL or FEASIBLE termination returns the extracted solution
\* with that status; after any other termination solve runs the greedy
\* solver and ends by returning its GREEDY_SOLUTION response.
C10_OutcomeHandling ==
    /\ solver_status \in {"OPTIMAL", "FEASIBLE"} =>
          /\ Returned
          /\ response.status = solver_status
          /\ ~trace.greedy_ran
    /\ solver_status \in {"INFEASIBLE", "UNKNOWN", "MODEL_INVALID"} =>
          /\ pc # "raised"
          /\ Returned => (response.status = "GREEDY_SOLUTION" /\ trace.greedy_ran)

\* C11: a locked slot is never reassigned: for every locked assignment naming
\* (shift, slot), no response holds a non-locked segment of the same shift id
\* and slot, on either path, also when the lock's day or minutes differ from
\* the shift's template.
C11_LockedSlotNotReassigned ==
    Returned =>
        \A i \in DOMAIN request.locked_assignments : \A k \in DOMAIN Segments :
            ~ /\ ~Segments[k].locked
              /\ Segments[k].shift_id = request.locked_assignments[i].shift_id
              /\ Segments[k].slot = request.locked_assignments[i].slot

\* no two locked assignments of the request give one employee two slots of one shift
LockedInputDistinctPerShift ==
    \A i, j \in DOMAIN request.locked_assignments :
        i < j => ~ /\ request.locked_assignments[i].shift_id
                        = request.locked_assignments[j].shift_id
                   /\ request.locked_assignments[i].employee_id
                        = request.locked_assignments[j].employee_id

\* C12: in every response the segments of one shift, locked and new, belong
\* to pairwise distinct employees. Stated for the requests whose locked
\* assignments do not themselves give one employee two slots of a shift.
C12_DistinctEmployeesPerShift ==
    (Returned /\ LockedInputDistinctPerShift) =>
        \A i, j \in DOMAIN Segments :
            (i < j /\ Segments[i].shift_id = Segments[j].shift_id)
                => Segments[i].employee_id # Segments[j].employee_id

----------------------------------------------------------------------------
(* Properties of the greedy loop's steps *)

\* the greedy loop is about to handle slot slot_num of shift shift_idx
GreedyStep == pc = "greedy_loop" /\ shift_idx <= Len(request.shifts)

CurrentShift == request.shifts[shift_idx]

\* no locked assignment names the current (shift id, slot)
CurrentSlotOpen ==
    \A i \in DOMAIN request.locked_assignments :
        ~ /\ request.locked_assignments[i].shift_id = CurrentShift.id
          /\ request.locked_assignments[i].slot = slot_num

\* the indices of the employees eligible for the current shift
EligibleNow ==
    {i \in DOMAIN request.employees : Eligible(request.employees[i], CurrentShift)}

\* the two checks of the greedy solver for one employee at this step
PassesBothChecks(emp) ==
    /\ employee_workload[emp.id] + (CurrentShift.end_minute - CurrentShift.start_minute)
          <= ContractLimit(emp)
    /\ \A k \in DOMAIN assignments :
          (assignments[k].employee_id = emp.id /\ assignments[k].day = CurrentShift.day)
              => \/ CurrentShift.end_minute <= assignments[k].start_minute
                 \/ CurrentShift.start_minute >= assignments[k].end_minute

\* the eligible employee that comes first by (workload ascending, weekly
\* target descending), earlier in the request on ties
FirstChoice ==
    CHOOSE i \in EligibleNow :
        \A j \in EligibleNow \ {i} :
            LET wi == employee_workload[request.employees[i].id]
                wj == employee_workload[request.employees[j].id]
                ti == request.employees[i].weekly_minutes_target
                tj == request.employees[j].weekly_minutes_target
            IN  \/ wi < wj
                \/ wi = wj /\ ti > tj
                \/ wi = wj /\ ti = tj /\ i < j

\* this step appends a non-locked segment for the current slot to emp
AssignedTo(emp) ==
    /\ Len(assignments') = Len(assignments) + 1
    /\ LET seg == assignments'[Len(assignments')]
       IN  /\ seg.employee_id = emp.id
           /\ seg.shift_id = CurrentShift.id
           /\ seg.slot = slot_num
           /\ ~seg.locked

SlotFilled == \E i \in DOMAIN request.employees : AssignedTo(request.employees[i])

\* C13 as claimed: in the greedy solver an open slot is assigned whenever at
\* least one eligible employee passes both checks (weekly limit, no same-day
\* overlap), and is left unfilled only if none does.
C13_GreedyFillsIfAnyPasses ==
    [][(GreedyStep /\ CurrentSlotOpen) =>
          (SlotFilled <=> \E i \in EligibleNow : PassesBothChecks(request.employees[i]))]_vars

\* C13 amended: the greedy solver tries one employee per open slot, the first
\* eligible employee by (workload ascending, weekly target descending); the
\* slot goes to that employee iff that employee passes both checks, and is
\* left unfilled otherwise, also when another eligible employee would pass.
\* A slot named by a locked assignment gets no new segment.
C13_GreedyFillsIfFirstPasses ==
    [][GreedyStep =>
          IF CurrentSlotOpen /\ EligibleNow # {}
               /\ PassesBothChecks(request.employees[FirstChoice])
          THEN AssignedTo(request.employees[FirstChoice])
          ELSE assignments' = assignments]_vars

\* the greedy loop has placed a segment and now stands at an open slot whose
\* first choice fails a check while another eligible employee passes both
C13_Witness ==
    /\ GreedyStep
    /\ \E k \in DOMAIN assignments : ~assignments[k].locked
    /\ CurrentSlotOpen
    /\ EligibleNow # {}
    /\ ~PassesBothChecks(request.employees[FirstChoice])
    /\ \E i \in EligibleNow : PassesBothChecks(request.employees[i])

----------------------------------------------------------------------------
(* Properties of the responses, continued *)

\* the durations of all segments of the response, locked ones included
SegmentMinutes ==
    SumSeq([k \in DOMAIN Segments |-> Segments[k].end_minute - Segments[k].start_minute])

\* C14: the greedy path computes its metrics as the exact path does:
\* total_assigned_minutes is the sum of the durations of all returned
\* segments, locked ones included, and coverage_ratio is that sum over the
\* total capacity minutes.
C14_GreedyMetricsAsExact ==
    (Returned /\ response.status = "GREEDY_SOLUTION") =>
        /\ response.total_assigned_minutes = SegmentMinutes
        /\ CapacityMinutes > 0 =>
              response.coverage_ratio.num * CapacityMinutes
                  = SegmentMinutes * response.coverage_ratio.den

\* role compatibility as the filter's rule states it
RoleCompatible(emp, shift) ==
    IF shift.work_type_id # None /\ emp.home_store_id = shift.store_id
    THEN shift.work_type_id \in emp.role_ids
    ELSE lower(shift.role) \in {lower(r) : r \in emp.role_names}

\* C15: every employee the filter returns for a shift is role compatible:
\* the work-type identifier is among the role identifiers for a home-store
\* employee of a shift that has one; in every other case the shift's role is,
\* case-insensitively, among the employee's role names.
C15_RoleRule ==
    \A i \in DOMAIN request.employees : \A j \in DOMAIN request.shifts :
        Eligible(request.employees[i], request.shifts[j])
            => RoleCompatible(request.employees[i], request.shifts[j])

\* the employee's home store is the shift's, or the employee may work across stores
StoreCompatible(emp, shift) ==
    emp.home_store_id = shift.store_id \/ emp.can_work_across_stores

\* a window of the shift's day that intersects the shift without containing it
PartialWindow(emp, shift) ==
    \E i \in DOMAIN emp.availability :
        LET w == emp.availability[i] IN
            /\ w.day = shift.day
            /\ ~w.is_off
            /\ w.start_minute < shift.end_minute
            /\ shift.start_minute < w.end_minute
            /\ ~(w.start_minute <= shift.start_minute /\ w.end_minute >= shift.end_minute)

\* C16: in every response each non-locked segment pairs a shift of the
\* request with an employee of the request whose home store is the shift's or
\* who may work across stores, and who has a non-off availability window on
\* the shift's day that contains the shift.
C16_StoreAndAvailability ==
    Returned =>
        \A k \in DOMAIN Segments :
            ~Segments[k].locked =>
                /\ \E i \in DOMAIN request.employees :
                      request.employees[i].id = Segments[k].employee_id
                /\ \E j \in DOMAIN request.shifts :
                      request.shifts[j].id = Segments[k].shift_id
                /\ \A i \in DOMAIN request.employees : \A j \in DOMAIN request.shifts :
                      (/\ request.employees[i].id = Segments[k].employee_id
                       /\ request.shifts[j].id = Segments[k].shift_id)
                          => /\ StoreCompatible(request.employees[i], request.shifts[j])
                             /\ WindowContains(request.employees[i], request.shifts[j])

\* a response gives a shift to an employee of another store, while the
\* request has an employee of the right store and role whose window only
\* partly covers that shift
C16_Witness ==
    /\ Returned
    /\ \E k \in DOMAIN Segments : \E i, h \in DOMAIN request.employees :
         \E j \in DOMAIN request.shifts :
            /\ ~Segments[k].locked
            /\ request.employees[i].id = Segments[k].employee_id
            /\ request.shifts[j].id = Segments[k].shift_id
            /\ request.employees[i].home_store_id # request.shifts[j].store_id
            /\ PartialWindow(request.employees[h], request.shifts[j])
            /\ StoreCompatible(request.employees[h], request.shifts[j])
            /\ ~role_rejected(request.employees[h], request.shifts[j])

\* no locked assignment of the request names (shift id, slot n)
OpenSlot(shift, n) ==
    \A i \in DOMAIN request.locked_assignments :
        ~ /\ request.locked_assignments[i].shift_id = shift.id
          /\ request.locked_assignments[i].slot = n

HasEligible(shift) ==
    \E i \in DOMAIN request.employees : Eligible(request.employees[i], shift)

\* the segments of the response for slot n of the shift
SegmentsOf(shift, n) ==
    {k \in DOMAIN Segments : Segments[k].shift_id = shift.id /\ Segments[k].slot = n}

NewSegmentsOf(shift, n) == {k \in SegmentsOf(shift, n) : ~Segments[k].locked}

\* C17: in every response with status OPTIMAL or FEASIBLE each open slot (no
\* locked assignment names it) that has an eligible employee is filled by
\* exactly one non-locked segment, each open slot without an eligible
\* employee has no segment, and every non-locked segment carries its shift's
\* template day, start and end minutes.
C17_ExactCoverage ==
    (Returned /\ response.status \in {"OPTIMAL", "FEASIBLE"}) =>
        /\ \A j \in DOMAIN request.shifts :
              \A n \in 0..(request.shifts[j].capacity - 1) :
                 OpenSlot(request.shifts[j], n) =>
                     IF HasEligible(request.shifts[j])
                     THEN Cardinality(NewSegmentsOf(request.shifts[j], n)) = 1
                     ELSE SegmentsOf(request.shifts[j], n) = {}
        /\ \A k \in DOMAIN Segments :
              ~Segments[k].locked =>
                  \E j \in DOMAIN request.shifts :
                      /\ request.shifts[j].id = Segments[k].shift_id
                      /\ request.shifts[j].day = Segments[k].day
                      /\ request.shifts[j].start_minute = Segments[k].start_minute
                      /\ request.shifts[j].end_minute = Segments[k].end_minute

\* an exact response for a request with a locked assignment, a shift of
\* capacity 2 whose open slots have eligible employees, and a shift nobody
\* is eligible for
C17_Witness ==
    /\ Returned
    /\ response.status \in {"OPTIMAL", "FEASIBLE"}
    /\ request.locked_assignments # <<>>
    /\ \E j \in DOMAIN request.shifts :
          /\ request.shifts[j].capacity = 2
          /\ HasEligible(request.shifts[j])
          /\ OpenSlot(request.shifts[j], 0)
          /\ OpenSlot(request.shifts[j], 1)
    /\ \E j \in DOMAIN request.shifts :
          ~HasEligible(request.shifts[j]) /\ OpenSlot(request.shifts[j], 0)

\* C18: every call of solve eventually returns a response, also after the
\* exact solver ended without a solution and control passed to the greedy
\* solver.
C18_Termination == <>Returned

\* C19: when allow_uncovered is false, every response whose status is not
\* INFEASIBLE has a segment, locked or new, for every slot 0..capacity-1 of
\* every shift.
C19_FullCoverageUnlessAllowed ==
    (Returned /\ ~request.options.allow_uncovered /\ response.status # "INFEASIBLE") =>
        \A j \in DOMAIN request.shifts :
            \A n \in 0..(request.shifts[j].capacity - 1) :
                SegmentsOf(request.shifts[j], n) # {}

\* C20: in every response coverage_ratio lies between 0 and 1.
C20_CoverageRatioWithinOne ==
    Returned =>
        /\ response.coverage_ratio.den > 0
        /\ 0 <= response.coverage_ratio.num
        /\ response.coverage_ratio.num <= response.coverage_ratio.den

====
